---------------------------- MODULE Spec2Model ----------------------------
(***************************************************************************)
(* Model of models.py: the three feature extractors, the perceptron and    *)
(* logistic-regression trainers, the classifiers they return and the       *)
(* train_model dispatcher.                                                 *)
(*                                                                         *)
(* A token is a string: the length test of the Better extractor and the   *)
(* f"{a}_{b}" join of the bigram extractors are computed on its            *)
(* characters.  A sparse feature vector (a Counter) is a function from     *)
(* feature ids to counts whose domain is the set of keys stored in it.     *)
(***************************************************************************)
EXTENDS Integers, Sequences, FiniteSets, TLC

VARIABLES
    args,           \* the args bundle of train_model: [model, feats]
    train_exs,      \* the caller's list of examples, shuffled in place
    indexer,        \* the Indexer of the feature extractor: keys in id order
    weights,        \* the weight array (index k+1 holds the weight of id k)
    epoch,          \* the epoch counter of the running trainer
    i,              \* the position of the running for-loop in train_exs
    pc,             \* where control is
    sentence,       \* the words of the last extract_features call
    add_to_indexer, \* the flag of the last extract_features call
    features,       \* the Counter the last extract_features call returned
    model,          \* the classifier train_model returned ("none" before)
    prediction,     \* what the last predict call returned (-1 before)
    rng,            \* the state of the np.random generator
    seed,           \* the seed the caller gave np.random (seeded runs)
    run,            \* 1 for the first training run, 2 for the repeated one
    first,          \* the Indexer and weights the first run ended with
    given_exs,      \* the examples as the caller first passed them
    indexed         \* history: the features resolved in growth mode so far

vars == <<args, train_exs, indexer, weights, epoch, i, pc, sentence,
          add_to_indexer, features, model, prediction, rng, seed, run,
          first, given_exs, indexed>>

(***************************************************************************)
(* Bounds.  MaxCorpus bounds the size of what one behaviour feeds to the   *)
(* growth pass: one per sentence plus one per token.  MaxSeed bounds the   *)
(* seeds tried, MaxRepeat the repetitions of a token in the training sets  *)
(* that repeat one.                                                        *)
(***************************************************************************)
MaxCorpus == 4

MaxSeed == 0

MaxRepeat == 5

NumEpochs == 30

(***************************************************************************)
(* Tokens.  "to" has two characters and "not" three, the two sides of the  *)
(* Better extractor's length test; "to_to" holds the character the bigram  *)
(* extractors join with.  The trainers are explored on the first two.      *)
(***************************************************************************)
Words == {"to", "not", "to_to"}

TrainWords == {"to", "not"}

SentencesOver(ws, n) == UNION {[1..k -> ws] : k \in 0..n}

Cost(words) == 1 + Len(words)

NoFeatures == [k \in {} |-> 0]

(***************************************************************************)
(* utils.Indexer.  ids are positions in first-seen order, starting at 0.   *)
(***************************************************************************)
IndexOf(ix, key) ==
    IF \E k \in 1..Len(ix) : ix[k] = key
    THEN (CHOOSE k \in 1..Len(ix) : ix[k] = key) - 1
    ELSE -1

AddAndGetIndex(ix, key) ==
    IF IndexOf(ix, key) # -1
    THEN [indexer |-> ix, index |-> IndexOf(ix, key)]
    ELSE [indexer |-> Append(ix, key), index |-> Len(ix)]

(***************************************************************************)
(* The body shared by the loops of the three extract_features methods:     *)
(* resolve the key (growing the Indexer when add is set), then count it    *)
(* unless the Indexer answered -1.  st is [indexer, features].             *)
(***************************************************************************)
Increment(f, id) ==
    IF id \in DOMAIN f
    THEN [f EXCEPT ![id] = @ + 1]
    ELSE [k \in DOMAIN f \cup {id} |-> IF k = id THEN 1 ELSE f[k]]

ResolveAlwaysAdding(st, key, add) ==
    LET r == AddAndGetIndex(st.indexer, key)
    IN  [indexer |-> r.indexer, features |-> Increment(st.features, r.index)]

Resolve(st, key, add) ==
    LET r == IF add
             THEN AddAndGetIndex(st.indexer, key)
             ELSE [indexer |-> st.indexer, index |-> IndexOf(st.indexer, key)]
    IN  [indexer |-> r.indexer,
         features |-> IF r.index # -1
                      THEN Increment(st.features, r.index)
                      ELSE st.features]

Bigram(a, b) == a \o "_" \o b

RECURSIVE UnigramLoop(_, _, _, _)
UnigramLoop(words, k, add, st) ==
    IF k > Len(words) THEN st
    ELSE UnigramLoop(words, k + 1, add, Resolve(st, words[k], add))

RECURSIVE BigramLoop(_, _, _, _)
BigramLoop(words, k, add, st) ==
    IF k > Len(words) - 1 THEN st
    ELSE BigramLoop(words, k + 1, add,
                    Resolve(st, Bigram(words[k], words[k + 1]), add))

RECURSIVE LongWordLoop(_, _, _, _)
LongWordLoop(words, k, add, st) ==
    IF k > Len(words) THEN st
    ELSE LongWordLoop(words, k + 1, add,
                      IF Len(words[k]) > 2
                      THEN Resolve(st, words[k], add)
                      ELSE st)

RECURSIVE AnyWordLoop(_, _, _, _)
AnyWordLoop(words, k, add, st) ==
    IF k > Len(words) THEN st
    ELSE AnyWordLoop(words, k + 1, add,
                     IF Len(words[k]) >= 2
                     THEN Resolve(st, words[k], add)
                     ELSE st)

UnigramExtract(ix, words, add) ==
    UnigramLoop(words, 1, add, [indexer |-> ix, features |-> NoFeatures])

BigramExtract(ix, words, add) ==
    BigramLoop(words, 1, add, [indexer |-> ix, features |-> NoFeatures])

BetterExtractShortWords(ix, words, add) ==
    BigramLoop(words, 1, add,
        AnyWordLoop(words, 1, add, [indexer |-> ix, features |-> NoFeatures]))

BetterExtract(ix, words, add) ==
    BigramLoop(words, 1, add,
        LongWordLoop(words, 1, add, [indexer |-> ix, features |-> NoFeatures]))

\* feat_extractor.extract_features(words, add_to_indexer=add), by the class
\* train_model built for args.feats
ExtractFeatures(feats, ix, words, add) ==
    CASE feats = "UNIGRAM" -> UnigramExtract(ix, words, add)
      [] feats = "BIGRAM"  -> BigramExtract(ix, words, add)
      [] feats = "BETTER"  -> BetterExtract(ix, words, add)

(***************************************************************************)
(* History: the features a call resolves, before they are turned into      *)
(* keys.  A unigram feature is <<"uni", token>>, a bigram feature is       *)
(* <<"bi", token, next token>>.                                            *)
(***************************************************************************)
Fired(feats, words) ==
    LET uni  == {<<"uni", words[k]>> : k \in 1..Len(words)}
        long == {<<"uni", words[k]>> : k \in {j \in 1..Len(words) : Len(words[j]) > 2}}
        bi   == {<<"bi", words[k], words[k + 1]>> : k \in 1..(Len(words) - 1)}
    IN  CASE feats = "UNIGRAM" -> uni
          [] feats = "BIGRAM"  -> bi
          [] feats = "BETTER"  -> long \cup bi

KeyOf(f) == IF f[1] = "uni" THEN f[2] ELSE Bigram(f[2], f[3])

FeatKinds == {"UNIGRAM", "BIGRAM", "BETTER"}

Idle ==
    /\ train_exs = <<>> /\ given_exs = <<>>
    /\ weights = <<>> /\ epoch = 0 /\ i = 0
    /\ model = "none" /\ prediction = -1
    /\ rng = 0 /\ seed = 0 /\ run = 1 /\ first = <<>>

(***************************************************************************)
(* The extractors used on their own: any sequence of growth-mode and       *)
(* non-growth calls on one extractor, starting from an empty Indexer.      *)
(***************************************************************************)
InitExtract ==
    /\ args \in [model : {"none"}, feats : FeatKinds]
    /\ indexer = <<>>
    /\ pc = "extractor"
    /\ sentence = <<>> /\ add_to_indexer = FALSE /\ features = NoFeatures
    /\ indexed = {}
    /\ Idle

ExtractGrowing(words) ==
    /\ pc \in {"extractor", "extracted"}
    /\ Len(indexer) + Cost(words) <= MaxCorpus
    /\ \E r \in {ExtractFeatures(args.feats, indexer, words, TRUE)} :
           /\ indexer' = r.indexer
           /\ features' = r.features
    /\ sentence' = words
    /\ add_to_indexer' = TRUE
    /\ indexed' = indexed \cup Fired(args.feats, words)
    /\ pc' = "extracted"
    /\ UNCHANGED <<args, train_exs, weights, epoch, i, model, prediction,
                   rng, seed, run, first, given_exs>>

ExtractFrozen(words) ==
    /\ pc \in {"extractor", "extracted"}
    /\ \E r \in {ExtractFeatures(args.feats, indexer, words, FALSE)} :
           /\ indexer' = r.indexer
           /\ features' = r.features
    /\ sentence' = words
    /\ add_to_indexer' = FALSE
    /\ pc' = "extracted"
    /\ UNCHANGED <<args, train_exs, weights, epoch, i, model, prediction,
                   rng, seed, run, first, given_exs, indexed>>

NextExtract ==
    \/ \E words \in SentencesOver(Words, MaxCorpus - 1) : ExtractGrowing(words)
    \/ \E words \in SentencesOver(Words, MaxCorpus - 2) : ExtractFrozen(words)

SpecExtract == InitExtract /\ [][NextExtract]_vars

(***************************************************************************)
(* Training.  An example is [words, label].  Corpora(b) is every list of   *)
(* examples of total cost at most b.                                       *)
(***************************************************************************)
Examples(b) == [words : SentencesOver(TrainWords, b - 1), label : {0, 1}]

RECURSIVE Corpora(_)
Corpora(b) ==
    {<<>>} \cup
    UNION {{<<ex>> \o rest : rest \in Corpora(b - Cost(ex.words))} :
              ex \in {e \in Examples(b) : Cost(e.words) <= b}}

\* Two examples that repeat a token, "to" n times and "to" n times then
\* "not", in either order and with any labels: repetition is what makes a
\* score large after few updates.
Repeat(word, n) == [k \in 1..n |-> word]

RepeatedCorpora ==
    UNION {{<<[words |-> Repeat("to", n), label |-> a],
              [words |-> Repeat("to", n) \o <<"not">>, label |-> b]>>,
            <<[words |-> Repeat("to", n) \o <<"not">>, label |-> b],
              [words |-> Repeat("to", n), label |-> a]>>} :
           n \in 1..MaxRepeat, a \in {0, 1}, b \in {0, 1}}

ModelKinds == {"TRIVIAL", "PERCEPTRON", "LR", "BETTER"}

\* the trainer that runs: train_better hard-wires model_type = "PERCEPTRON"
Trainer == IF args.model = "LR" THEN "LR" ELSE "PERCEPTRON"

(***************************************************************************)
(* Arithmetic.  Weights are integers in a unit chosen per trainer.         *)
(* Perceptron: the unit is learning_rate (0.0001), so an update adds or    *)
(* subtracts the count.  Logistic regression: the unit is 1/250 and a      *)
(* probability is a whole number of hundredths, so that                    *)
(* learning_rate * error * value = 0.4 * (error/100) * value is            *)
(* error * value units.  Probability rounds 1 / (1 + exp(score)) to the    *)
(* nearest hundredth: SigmoidSteps[k] is the largest score, in units of    *)
(* 1/250, whose probability is at least k hundredths.  Rounding is what    *)
(* the floating-point code does too, at a finer grain: 1 + exp(score)      *)
(* evaluates to exactly 2.0 for every score in (0, 2^-52).                 *)
(***************************************************************************)
SigmoidSteps ==
    << 1323, 1046, 915, 829, 763, 710, 666, 628, 594, 563,
       535, 510, 486, 464, 443, 423, 405, 387, 370, 354,
       338, 323, 309, 295, 281, 268, 255, 242, 229, 217,
       205, 194, 182, 171, 160, 149, 138, 127, 117, 106,
       96, 85, 75, 65, 55, 45, 35, 25, 15, 5,
       -6, -16, -26, -36, -46, -56, -66, -76, -86, -97,
       -107, -118, -128, -139, -150, -161, -172, -183, -195, -206,
       -218, -230, -243, -256, -269, -282, -296, -310, -324, -339,
       -355, -371, -388, -406, -424, -444, -465, -487, -511, -536,
       -564, -595, -629, -667, -711, -764, -830, -916, -1047, -1324 >>

Probability(score) ==
    Cardinality({k \in DOMAIN SigmoidSteps : score <= SigmoidSteps[k]})

\* every id of the vector indexes the weight array (else IndexError)
InRange(w, f) == \A id \in DOMAIN f : 0 <= id /\ id < Len(w)

\* sum(weights[idx] * value for idx, value in features.items())
RECURSIVE Score(_, _)
Score(w, f) ==
    IF DOMAIN f = {} THEN 0
    ELSE LET id == CHOOSE x \in DOMAIN f : TRUE
         IN  w[id + 1] * f[id] + Score(w, [k \in DOMAIN f \ {id} |-> f[k]])

MistakeAtZero(score, label) == (score >= 0) # (label = 1)

Mistake(score, label) == (score > 0) # (label = 1)

PerceptronUpdateDown(w, f, label) ==
    [k \in 1..Len(w) |->
        IF (k - 1) \in DOMAIN f THEN w[k] - f[k - 1] ELSE w[k]]

PerceptronUpdate(w, f, label) ==
    [k \in 1..Len(w) |->
        IF (k - 1) \in DOMAIN f
        THEN (IF label = 1 THEN w[k] + f[k - 1] ELSE w[k] - f[k - 1])
        ELSE w[k]]

\* error = ex.label - probability, in hundredths
Error(label, score) == 100 * label - Probability(score)

LRUpdateAdding(w, f, error) ==
    [k \in 1..Len(w) |->
        IF (k - 1) \in DOMAIN f THEN w[k] + error * f[k - 1] ELSE w[k]]

\* for idx, value in features.items(): weights[idx] -= learning_rate * error * value
LRUpdate(w, f, error) ==
    [k \in 1..Len(w) |->
        IF (k - 1) \in DOMAIN f THEN w[k] - error * f[k - 1] ELSE w[k]]

PerceptronLabel(score) == IF score > 0 THEN 1 ELSE 0

LRLabelStrict(score) == IF Probability(score) > 50 THEN 1 ELSE 0

LRLabel(score) == IF Probability(score) >= 50 THEN 1 ELSE 0

(***************************************************************************)
(* np.random.  shuffle is Fisher-Yates: for k = n-1 down to 1, swap x[k]   *)
(* with x[j], j drawn from 0..k.  The generator is a small congruential    *)
(* one: what matters of it is that its draws are a function of its state   *)
(* and that seeding sets the state.                                        *)
(***************************************************************************)
RngNext(s) == (5 * s + 3) % 8

Draw(s, k) == (s \div 2) % (k + 1)

Swap(xs, a, b) == [xs EXCEPT ![a] = xs[b], ![b] = xs[a]]

RECURSIVE FisherYates(_, _, _)
FisherYates(xs, k, s) ==
    IF k < 1 THEN [list |-> xs, rng |-> s]
    ELSE FisherYates(Swap(xs, k + 1, Draw(s, k) + 1), k - 1, RngNext(s))

Permuted(xs, p) == [k \in 1..Len(xs) |-> xs[p[k]]]

(***************************************************************************)
(* train_model, entered with pc = "train_model".  Init leaves the          *)
(* generator unknown, so every shuffle may produce any order; it runs the  *)
(* perceptron, the trivial model and unrecognized selectors ("SVM",        *)
(* "TRIGRAM").  InitSeeded has the caller seed the generator, which makes  *)
(* the shuffles a function of the seed; it runs the three trainers.        *)
(***************************************************************************)
Init ==
    /\ args \in [model : {"TRIVIAL", "PERCEPTRON", "SVM"},
                 feats : FeatKinds \cup {"TRIGRAM"}]
    /\ train_exs \in Corpora(MaxCorpus)
    /\ given_exs = train_exs
    /\ indexer = <<>> /\ weights = <<>> /\ epoch = 0 /\ i = 0
    /\ pc = "train_model"
    /\ sentence = <<>> /\ add_to_indexer = FALSE /\ features = NoFeatures
    /\ model = "none" /\ prediction = -1
    /\ rng = 0 /\ seed = 0 /\ run = 1 /\ first = <<>>
    /\ indexed = {}

InitSeeded ==
    /\ args \in [model : {"PERCEPTRON", "LR", "BETTER"}, feats : FeatKinds]
    /\ train_exs \in Corpora(MaxCorpus) \cup RepeatedCorpora
    /\ given_exs = train_exs
    /\ indexer = <<>> /\ weights = <<>> /\ epoch = 0 /\ i = 0
    /\ pc = "train_model"
    /\ sentence = <<>> /\ add_to_indexer = FALSE /\ features = NoFeatures
    /\ model = "none" /\ prediction = -1
    /\ seed \in 0..MaxSeed /\ rng = seed /\ run = 1 /\ first = <<>>
    /\ indexed = {}

\* lines 252-277, up to the call of a trainer
TrainModel ==
    /\ pc = "train_model"
    /\ IF args.model = "TRIVIAL"
       THEN /\ model' = "TRIVIAL"
            /\ pc' = "returned"
       ELSE IF args.feats \notin FeatKinds
       THEN /\ pc' = "raised"
            /\ model' = model
       ELSE /\ model' = model
            /\ pc' = CASE args.model \in {"PERCEPTRON", "LR"} -> "grow"
                       [] args.model = "BETTER" -> "better_grow"
                       [] OTHER -> "raised"
    /\ i' = 0
    /\ UNCHANGED <<args, train_exs, indexer, weights, epoch, sentence,
                   add_to_indexer, features, prediction, rng, seed, run,
                   first, given_exs, indexed>>

\* one iteration of a growth loop over train_exs
GrowOne ==
    /\ i < Len(train_exs)
    /\ \E ex \in {train_exs[i + 1]} :
       \E r \in {ExtractFeatures(args.feats, indexer, ex.words, TRUE)} :
           /\ indexer' = r.indexer
           /\ features' = r.features
           /\ sentence' = ex.words
           /\ indexed' = indexed \cup Fired(args.feats, ex.words)
    /\ add_to_indexer' = TRUE
    /\ i' = i + 1
    /\ UNCHANGED <<args, train_exs, weights, epoch, pc, model, prediction,
                   rng, seed, run, first, given_exs>>

\* train_better, lines 227-228
BetterGrowStep == pc = "better_grow" /\ GrowOne

\* train_better, lines 230-232: model_type is "PERCEPTRON"
BetterDispatch ==
    /\ pc = "better_grow"
    /\ i = Len(train_exs)
    /\ pc' = "grow"
    /\ i' = 0
    /\ UNCHANGED <<args, train_exs, indexer, weights, epoch, sentence,
                   add_to_indexer, features, model, prediction, rng, seed,
                   run, first, given_exs, indexed>>

\* train_perceptron lines 179-180, train_logistic_regression lines 206-207
GrowStep == pc = "grow" /\ GrowOne

\* lines 181-184 and 208-211
Alloc ==
    /\ pc = "grow"
    /\ i = Len(train_exs)
    /\ weights' = [k \in 1..Len(indexer) |-> 0]
    /\ epoch' = 0
    /\ pc' = "epoch"
    /\ UNCHANGED <<args, train_exs, indexer, i, sentence, add_to_indexer,
                   features, model, prediction, rng, seed, run, first,
                   given_exs, indexed>>

\* what follows np.random.shuffle(train_exs) once the list is `shuffled`
EnterEpoch(shuffled) ==
    /\ train_exs' = shuffled
    /\ i' = 0
    /\ IF Len(shuffled) = 0
       THEN epoch' = epoch + 1 /\ pc' = "epoch"
       ELSE epoch' = epoch /\ pc' = "examples"

\* np.random.shuffle(train_exs) when nothing is known of the generator
Shuffle ==
    /\ pc = "epoch"
    /\ epoch < NumEpochs
    /\ \E p \in Permutations(1..Len(train_exs)) :
          EnterEpoch(Permuted(train_exs, p))
    /\ UNCHANGED <<args, indexer, weights, sentence, add_to_indexer,
                   features, model, prediction, rng, seed, run, first,
                   given_exs, indexed>>

ShuffleUnreset ==
    /\ pc = "epoch"
    /\ epoch < NumEpochs
    /\ \E r \in {FisherYates(train_exs, Len(train_exs) - 1, (rng + run - 1) % 8)} :
           /\ EnterEpoch(r.list)
           /\ rng' = r.rng
    /\ UNCHANGED <<args, indexer, weights, sentence, add_to_indexer,
                   features, model, prediction, seed, run, first,
                   given_exs, indexed>>

\* np.random.shuffle(train_exs) after the caller seeded the generator
ShuffleSeeded ==
    /\ pc = "epoch"
    /\ epoch < NumEpochs
    /\ \E r \in {FisherYates(train_exs, Len(train_exs) - 1, rng)} :
           /\ EnterEpoch(r.list)
           /\ rng' = r.rng
    /\ UNCHANGED <<args, indexer, weights, sentence, add_to_indexer,
                   features, model, prediction, seed, run, first,
                   given_exs, indexed>>

\* the end of one iteration of `for ex in train_exs` inside an epoch
NextExample ==
    /\ i' = i + 1
    /\ IF i + 1 = Len(train_exs)
       THEN epoch' = epoch + 1 /\ pc' = "epoch"
       ELSE epoch' = epoch /\ pc' = "examples"

\* train_perceptron, lines 189-193
PerceptronStep ==
    /\ pc = "examples"
    /\ Trainer = "PERCEPTRON"
    /\ i < Len(train_exs)
    /\ \E ex \in {train_exs[i + 1]} :
       \E r \in {ExtractFeatures(args.feats, indexer, ex.words, FALSE)} :
           /\ indexer' = r.indexer
           /\ features' = r.features
           /\ sentence' = ex.words
           /\ IF InRange(weights, r.features)
              THEN /\ weights' =
                        IF Mistake(Score(weights, r.features), ex.label)
                        THEN PerceptronUpdate(weights, r.features, ex.label)
                        ELSE weights
                   /\ NextExample
              ELSE /\ pc' = "raised"
                   /\ UNCHANGED <<weights, i, epoch>>
    /\ add_to_indexer' = FALSE
    /\ UNCHANGED <<args, train_exs, model, prediction, rng, seed, run,
                   first, given_exs, indexed>>

\* train_logistic_regression, lines 216-221
LRStep ==
    /\ pc = "examples"
    /\ Trainer = "LR"
    /\ i < Len(train_exs)
    /\ \E ex \in {train_exs[i + 1]} :
       \E r \in {ExtractFeatures(args.feats, indexer, ex.words, FALSE)} :
           /\ indexer' = r.indexer
           /\ features' = r.features
           /\ sentence' = ex.words
           /\ IF InRange(weights, r.features)
              THEN /\ \E error \in {Error(ex.label, Score(weights, r.features))} :
                        weights' = LRUpdate(weights, r.features, error)
                   /\ NextExample
              ELSE /\ pc' = "raised"
                   /\ UNCHANGED <<weights, i, epoch>>
    /\ add_to_indexer' = FALSE
    /\ UNCHANGED <<args, train_exs, model, prediction, rng, seed, run,
                   first, given_exs, indexed>>

\* lines 195 and 223, and the return of train_model
Return ==
    /\ pc = "epoch"
    /\ epoch = NumEpochs
    /\ model' = Trainer
    /\ pc' = "returned"
    /\ UNCHANGED <<args, train_exs, indexer, weights, epoch, i, sentence,
                   add_to_indexer, features, prediction, rng, seed, run,
                   first, given_exs, indexed>>

(***************************************************************************)
(* predict on the returned classifier.                                     *)
(***************************************************************************)
ClassifierFeaturesGrowing(words) ==
    ExtractFeatures(args.feats, indexer, words, TRUE)

\* self.feat_extractor.extract_features(sentence, add_to_indexer=False)
ClassifierFeatures(words) ==
    ExtractFeatures(args.feats, indexer, words, FALSE)

Predict(words) ==
    /\ pc = "returned"
    /\ model # "none"
    /\ IF model = "TRIVIAL"
       THEN /\ prediction' = 1
            /\ pc' = "predicted"
            /\ UNCHANGED <<indexer, features, sentence, add_to_indexer>>
       ELSE \E r \in {ClassifierFeatures(words)} :
                /\ indexer' = r.indexer
                /\ features' = r.features
                /\ sentence' = words
                /\ add_to_indexer' = FALSE
                /\ IF InRange(weights, r.features)
                   THEN /\ prediction' =
                             IF model = "LR"
                             THEN LRLabel(Score(weights, r.features))
                             ELSE PerceptronLabel(Score(weights, r.features))
                        /\ pc' = "predicted"
                   ELSE /\ prediction' = -1
                        /\ pc' = "raised"
    /\ UNCHANGED <<args, train_exs, weights, epoch, i, model, rng, seed,
                   run, first, given_exs, indexed>>

\* the caller trains again: the same examples in the same order, a fresh
\* extractor of the same kind, the generator seeded again with the same seed
Rerun ==
    /\ pc = "returned"
    /\ run = 1
    /\ first' = [indexer |-> indexer, weights |-> weights]
    /\ run' = 2
    /\ train_exs' = given_exs
    /\ rng' = seed
    /\ indexer' = <<>> /\ weights' = <<>> /\ epoch' = 0 /\ i' = 0
    /\ sentence' = <<>> /\ add_to_indexer' = FALSE /\ features' = NoFeatures
    /\ model' = "none" /\ prediction' = -1
    /\ indexed' = {}
    /\ pc' = "train_model"
    /\ UNCHANGED <<args, seed, given_exs>>

PredictAny == \E words \in SentencesOver(TrainWords, MaxCorpus - 1) : Predict(words)

Next ==
    \/ TrainModel
    \/ GrowStep
    \/ Alloc
    \/ Shuffle
    \/ PerceptronStep
    \/ Return

Spec == Init /\ [][Next]_vars

NextSeeded ==
    \/ TrainModel
    \/ BetterGrowStep
    \/ BetterDispatch
    \/ GrowStep
    \/ Alloc
    \/ ShuffleSeeded
    \/ PerceptronStep
    \/ LRStep
    \/ Return
    \/ PredictAny
    \/ Rerun

SpecSeeded == InitSeeded /\ [][NextSeeded]_vars

(***************************************************************************)
(* What a call is expected to count, stated without the loops: the keys    *)
(* a sentence fires, one entry per occurrence.                             *)
(***************************************************************************)
LongWords(words) == SelectSeq(words, LAMBDA w : Len(w) > 2)

BigramKeys(words) ==
    [k \in 1..(IF Len(words) = 0 THEN 0 ELSE Len(words) - 1) |->
        Bigram(words[k], words[k + 1])]

KeysFired(feats, words) ==
    CASE feats = "UNIGRAM" -> words
      [] feats = "BIGRAM"  -> BigramKeys(words)
      [] feats = "BETTER"  -> LongWords(words) \o BigramKeys(words)

CountOf(keys, key) == Cardinality({k \in DOMAIN keys : keys[k] = key})

RECURSIVE SumCounts(_)
SumCounts(f) ==
    IF DOMAIN f = {} THEN 0
    ELSE LET id == CHOOSE x \in DOMAIN f : TRUE
         IN  f[id] + SumCounts([k \in DOMAIN f \ {id} |-> f[k]])

Ids(ix) == 0..(Len(ix) - 1)

\* C1: a non-growth extract_features call (Unigram, Bigram or Better, any
\* Indexer, any sentence) returns normally, leaves the Indexer exactly as
\* it was, and returns a vector whose keys are ids of the Indexer, each
\* holding the number of occurrences of its key in the sentence; a key the
\* Indexer does not hold is dropped.
C1_FrozenExtract ==
    [][(pc' = "extracted" /\ ~add_to_indexer') =>
        /\ indexer' = indexer
        /\ DOMAIN features' \subseteq Ids(indexer)
        /\ \A id \in Ids(indexer) :
              LET n == CountOf(KeysFired(args.feats, sentence'), indexer[id + 1])
              IN  IF n = 0 THEN id \notin DOMAIN features'
                           ELSE id \in DOMAIN features' /\ features'[id] = n]_vars

\* C1 witness: a non-growth call on a non-empty Indexer whose sentence
\* fires a key the Indexer holds and a key it does not hold.
C1_Witness ==
    /\ pc = "extracted" /\ ~add_to_indexer
    /\ indexer # <<>>
    /\ features # NoFeatures
    /\ \E k \in DOMAIN KeysFired(args.feats, sentence) :
          IndexOf(indexer, KeysFired(args.feats, sentence)[k]) = -1

\* C3: after any sequence of growth-mode extractions, two different
\* features (a unigram and a bigram, or two different adjacent pairs) never
\* hold the same Indexer id.
C3_DistinctFeaturesDistinctIds ==
    \A f, g \in indexed :
        f # g => IndexOf(indexer, KeyOf(f)) # IndexOf(indexer, KeyOf(g))

\* C7: a growth-mode call of the Better extractor on a fresh Indexer returns
\* one count per occurrence of each token longer than 2 characters and one
\* per occurrence of each adjacent pair: every key fired has an id, every
\* stored count is at least 1, and the counts sum to the number of long
\* tokens plus the number of adjacent pairs.
C7_BetterGrowth ==
    [][(indexer = <<>> /\ pc' = "extracted" /\ add_to_indexer'
            /\ args.feats = "BETTER") =>
        LET keys == LongWords(sentence') \o BigramKeys(sentence')
            n    == Len(sentence')
        IN  /\ DOMAIN features' = Ids(indexer')
            /\ {indexer'[k] : k \in 1..Len(indexer')} = {keys[k] : k \in DOMAIN keys}
            /\ \A id \in Ids(indexer') :
                  /\ features'[id] = CountOf(keys, indexer'[id + 1])
                  /\ features'[id] >= 1
            /\ \A k \in 1..n : Len(sentence'[k]) <= 2 =>
                  /\ IndexOf(indexer', sentence'[k]) = -1
                  /\ k < n => IndexOf(indexer', Bigram(sentence'[k], sentence'[k + 1])) # -1
                  /\ k > 1 => IndexOf(indexer', Bigram(sentence'[k - 1], sentence'[k])) # -1
            /\ SumCounts(features') =
                  Len(LongWords(sentence')) + (IF n = 0 THEN 0 ELSE n - 1)]_vars

\* C7 witness: the Better extractor has grown a fresh Indexer on
\* ["to", "not"]: "not" and "to_not" are the only keys.
C7_Witness ==
    /\ pc = "extracted" /\ add_to_indexer /\ args.feats = "BETTER"
    /\ sentence = <<"to", "not">>
    /\ indexer = <<"not", "to_not">>
    /\ features = (0 :> 1) @@ (1 :> 1)


\* C2: train_model raises at once for every unrecognized model kind and for
\* every unrecognized feature kind, whatever the other selector is: it
\* returns no classifier and no growth pass has touched an Indexer.
C2_InvalidConfigurationRaises ==
    (args.model \notin ModelKinds \/ args.feats \notin FeatKinds) =>
        /\ pc \in {"train_model", "raised"}
        /\ model = "none"
        /\ indexer = <<>>

(***************************************************************************)
(* The training set as the returned classifier sees it.                    *)
(***************************************************************************)
FrozenFeatures(words) == ExtractFeatures(args.feats, indexer, words, FALSE).features

\* no feature occurs in both a label-1 and a label-0 example
SplitByLabel ==
    \A a, b \in 1..Len(train_exs) :
        (train_exs[a].label = 1 /\ train_exs[b].label = 0) =>
            DOMAIN FrozenFeatures(train_exs[a].words)
                \cap DOMAIN FrozenFeatures(train_exs[b].words) = {}

\* some weight vector classifies every example by the sign of its score
Separable ==
    \E w \in [1..Len(indexer) -> {-1, 0, 1}] :
        \A k \in 1..Len(train_exs) :
            (Score(w, FrozenFeatures(train_exs[k].words)) > 0)
                <=> (train_exs[k].label = 1)

\* C4: on a linearly separable training set whose features split by label,
\* whatever the shuffles were, the classifier train_perceptron returns after
\* its 30 epochs predicts the label of every training example.
C4_SeparableSetIsLearned ==
    (pc = "returned" /\ model = "PERCEPTRON" /\ SplitByLabel /\ Separable) =>
        \A k \in 1..Len(train_exs) :
            PerceptronLabel(Score(weights, FrozenFeatures(train_exs[k].words)))
                = train_exs[k].label

\* C4 witness: training has returned on a separable, split set that holds a
\* positive and a negative example with features, and has moved a weight.
C4_Witness ==
    /\ pc = "returned" /\ model = "PERCEPTRON" /\ SplitByLabel /\ Separable
    /\ \E a, b \in 1..Len(train_exs) :
          /\ train_exs[a].label = 1 /\ train_exs[b].label = 0
          /\ FrozenFeatures(train_exs[b].words) # NoFeatures
    /\ \E k \in 1..Len(weights) : weights[k] # 0

\* C5: once the weights are allocated their length is the Indexer's size,
\* the Indexer keeps that size through the epochs and through predict, and
\* every feature id a non-growth extraction hands to the weights is one of
\* 0 .. length - 1 (perceptron, logistic regression and train_better).
C5_VocabularyFrozen ==
    pc \in {"epoch", "examples", "returned", "predicted", "raised"} =>
        /\ Len(weights) = Len(indexer)
        /\ ~add_to_indexer => InRange(weights, features)

\* C5 witness: the classifier train_better returned has predicted a sentence
\* that fires a key of the vocabulary and a key outside it.
C5_Witness ==
    /\ pc = "predicted" /\ args.model = "BETTER"
    /\ features # NoFeatures
    /\ \E k \in DOMAIN KeysFired(args.feats, sentence) :
          IndexOf(indexer, KeysFired(args.feats, sentence)[k]) = -1

C8_MistakeDriven ==
    [][(pc = "examples" /\ Trainer = "PERCEPTRON" /\ i' = i + 1) =>
        LET ex == train_exs[i + 1]
            f  == features'
        IN  /\ Len(weights') = Len(weights)
            /\ IF (Score(weights, f) > 0) <=> (ex.label = 1)
               THEN weights' = weights
               ELSE \A k \in 1..Len(weights) :
                      IF (k - 1) \in DOMAIN f
                      THEN /\ weights'[k] # weights[k]
                           /\ weights'[k] - weights[k] =
                                 (IF ex.label = 1 THEN f[k - 1] ELSE 0 - f[k - 1])
                      ELSE weights'[k] = weights[k]]_vars

\* C8 witness: with the Unigram extractor, the epoch order (["to"], 1) then
\* (["to"], 0) has just been processed: the first step leaves the weight at
\* one unit, so the second is a mistake on a label-0 example and takes the
\* unit back.
C8_Witness ==
    /\ args.model = "PERCEPTRON" /\ args.feats = "UNIGRAM"
    /\ train_exs = <<[words |-> <<"to">>, label |-> 1],
                     [words |-> <<"to">>, label |-> 0]>>
    /\ i = 2 /\ epoch >= 1
    /\ weights = <<0>>

\* C9: a logistic-regression step on a label-1 example raises no weight and
\* does not raise that example's score, a step on a label-0 example lowers
\* no weight and does not lower its score, and a weight whose id is not in
\* the example's feature vector is unchanged.
C9_UpdateDirection ==
    [][(pc = "examples" /\ Trainer = "LR" /\ i' = i + 1) =>
        LET ex == train_exs[i + 1]
            f  == features'
        IN  /\ Len(weights') = Len(weights)
            /\ \A k \in 1..Len(weights) :
                  /\ ex.label = 1 => weights'[k] <= weights[k]
                  /\ ex.label = 0 => weights'[k] >= weights[k]
                  /\ (k - 1) \notin DOMAIN f => weights'[k] = weights[k]
            /\ ex.label = 1 => Score(weights', f) <= Score(weights, f)
            /\ ex.label = 0 => Score(weights', f) >= Score(weights, f)]_vars

\* C9 witness: logistic-regression training has lowered one weight (an
\* update on a label-1 example) and raised another (on a label-0 example).
C9_Witness ==
    /\ Trainer = "LR" /\ pc = "examples"
    /\ \E k \in 1..Len(weights) : weights[k] < 0
    /\ \E k \in 1..Len(weights) : weights[k] > 0

=============================================================================
